---- MODULE Spec2Model ----
(***************************************************************************)
(* Model of the Consul key-value plugin (db/keyval/consul/plugin.go): its  *)
(* fields, Init, the status probe closure registered with the health       *)
(* aggregator, DoResync, Close, NewBroker and NewWatcher.                  *)
(*                                                                         *)
(* Spec     : the probe closure runs as one step (the aggregator calls     *)
(*            one probe at a time).                                        *)
(* SpecConc : the probe closure runs as a sequence of its reads and writes *)
(*            of lastConnErr and connected, in NumProbes interleaved       *)
(*            invocations (the closure itself takes no lock).              *)
(***************************************************************************)
EXTENDS Integers, Sequences, FiniteSets, TLC

\* ---------------------------------------------------------------- bounds
MaxProbes == 5      \* probe invocations in one behaviour
MaxCloses == 2      \* calls of Close in one behaviour
MaxResyncCalls == 1 \* calls of the exported DoResync in one behaviour
MaxHandles == 2     \* brokers and watchers handed out in one behaviour
NumProbes == 2      \* concurrent probe invocations (SpecConc)
MaxOpts == 3        \* calls of WithTTL in one behaviour

\* ---------------------------------------------------------------- values
Nil == "nil"      \* the nil error
NilPtr == <<>>    \* a nil pointer; <<x>> is a pointer to x
NotCalled == "notcalled"
Panic == "panic"

ProbeErrors == {"errTimeout", "errRefused"}   \* errors client.GetValue may return
ConfigErrors == {"errConfig"}                 \* errors PluginConfig.GetValue may return
ClientErrors == {"errClient"}                 \* errors NewClient may return

healthCheckProbeKey == "/probe-consul-connection"
DefaultAddress == "127.0.0.1:8500"            \* api.DefaultConfig().Address
DefaultConfig == [Address |-> DefaultAddress, Scheme |-> "http"]  \* api.DefaultConfig()
Addresses == {"", "10.0.0.7:8500"}
KeyPrefixes == {"/vnf-agent/"}
PluginName == "consul"

\* type Config
Config == [Address : Addresses, ReconnectResync : BOOLEAN]

\* What PluginConfig.GetValue(&cfg) can return: (found, err) and the filled cfg.
ConfigOutcomes ==
    {[found |-> FALSE, err |-> Nil, cfg |-> NilPtr]}
    \cup {[found |-> FALSE, err |-> e, cfg |-> NilPtr] : e \in ConfigErrors}
    \cup {[found |-> TRUE, err |-> Nil, cfg |-> <<c>>] : c \in Config}

\* type Deps: which optional collaborators are injected.
Deps == [StatusCheck : BOOLEAN, Resync : BOOLEAN]

Threads == 1..NumProbes

VARIABLES
    pluginConfig,    \* outcome of PluginConfig.GetValue (environment)
    deps,            \* injected collaborators (environment)
    disabled,        \* Plugin.disabled
    connected,       \* Plugin.connected
    client,          \* Plugin.client (NilPtr or <<client>>; closed: released)
    protoWrapper,    \* Plugin.protoWrapper (NilPtr or <<wrapper>>)
    reconnectResync, \* Plugin.reconnectResync
    lastConnErr,     \* Plugin.lastConnErr
    initNotifChan,   \* Plugin.initNotifChan: Nil, "open" or "closed"
    registered,      \* probes registered with StatusCheck: the name, and
                     \* Plugin.connected at the time of Register
    resyncCalls,     \* invocations of Resync.DoResync
    initRet,         \* what Init returned (NotCalled before)
    newClientErr,    \* what NewClient returned to Init (NotCalled if not called)
    panicked,        \* Nil, or the operation that panicked
    nProbes,         \* probe invocations started
    failStreak,      \* consecutive failing probes just completed
    resyncSinceFail, \* probe-triggered resyncs since the last recorded failure
    lastProbe,       \* <<record>> of the last completed probe, or <<>>
    closeRets,       \* what each Close returned
    chanReleases,    \* how many times the notification channel was closed
    nResyncOps,      \* calls of the exported DoResync
    handles,         \* brokers and watchers handed out
    lastOp,          \* <<record>> of the last call made through a handle, or <<>>
    recoveries,      \* successful probes that followed a failing one
    notifSent,       \* values the plugin has sent on initNotifChan
    notifReceived,   \* values a consumer has received from the channel
    lastReceive,     \* what the consumer's last receive gave: Nil, "value", "closed"
    ttlOpts,         \* the WithTTLOpt values allocated by WithTTL, by address
    ttlArgs,         \* the duration each call of WithTTL was given
    pc,              \* SpecConc: position of each probe invocation
    perr             \* SpecConc: err local of each probe invocation

vars == <<pluginConfig, deps, disabled, connected, client, protoWrapper,
          reconnectResync, lastConnErr, initNotifChan, registered, resyncCalls,
          initRet, newClientErr, panicked, nProbes, failStreak, resyncSinceFail,
          lastProbe, closeRets, chanReleases, nResyncOps, handles, lastOp,
          recoveries, notifSent, notifReceived, lastReceive, ttlOpts, ttlArgs,
          pc, perr>>

envVars == <<pluginConfig, deps>>
fieldVars == <<disabled, connected, client, protoWrapper, reconnectResync,
               lastConnErr, initNotifChan>>
probeHist == <<nProbes, failStreak, resyncSinceFail, lastProbe, recoveries>>
consumerVars == <<notifReceived, lastReceive>>
ttlVars == <<ttlOpts, ttlArgs>>
initHist == <<initRet, newClientErr>>
closeHist == <<closeRets, chanReleases>>
opHist == <<handles, lastOp>>
concVars == <<pc, perr>>

\* The zero Plugin, with any configuration outcome and any injected collaborators.
Init ==
    /\ pluginConfig \in ConfigOutcomes
    /\ deps \in Deps
    /\ disabled = FALSE
    /\ connected = FALSE
    /\ client = NilPtr
    /\ protoWrapper = NilPtr
    /\ reconnectResync = FALSE
    /\ lastConnErr = Nil
    /\ initNotifChan = Nil
    /\ registered = <<>>
    /\ resyncCalls = 0
    /\ initRet = NotCalled
    /\ newClientErr = NotCalled
    /\ panicked = Nil
    /\ nProbes = 0
    /\ failStreak = 0
    /\ resyncSinceFail = 0
    /\ lastProbe = NilPtr
    /\ closeRets = <<>>
    /\ chanReleases = 0
    /\ nResyncOps = 0
    /\ handles = {}
    /\ lastOp = NilPtr
    /\ recoveries = 0
    /\ notifSent = 0
    /\ notifReceived = 0
    /\ lastReceive = Nil
    /\ ttlOpts = <<>>
    /\ ttlArgs = <<>>
    /\ pc = [t \in Threads |-> "idle"]
    /\ perr = [t \in Threads |-> Nil]

Alive == panicked = Nil

\* ------------------------------------------------------------------ Init
\* Plugin.getConfig: the cfg pointer and error it returns, and Plugin.disabled
\* after it.
getConfigKeepsEnabled ==
    IF pluginConfig.err # Nil
    THEN [cfg |-> NilPtr, err |-> pluginConfig.err, disabled |-> disabled]
    ELSE IF ~pluginConfig.found
    THEN [cfg |-> NilPtr, err |-> Nil, disabled |-> disabled]
    ELSE [cfg |-> pluginConfig.cfg, err |-> Nil, disabled |-> disabled]

\* A getConfig that looks at found before it looks at err.
getConfigChecksFoundFirst ==
    IF ~pluginConfig.found
    THEN [cfg |-> NilPtr, err |-> Nil, disabled |-> TRUE]
    ELSE IF pluginConfig.err # Nil
    THEN [cfg |-> NilPtr, err |-> pluginConfig.err, disabled |-> disabled]
    ELSE [cfg |-> pluginConfig.cfg, err |-> Nil, disabled |-> disabled]

getConfig ==
    IF pluginConfig.err # Nil
    THEN [cfg |-> NilPtr, err |-> pluginConfig.err, disabled |-> disabled]
    ELSE IF ~pluginConfig.found
    THEN [cfg |-> NilPtr, err |-> Nil, disabled |-> TRUE]
    ELSE [cfg |-> pluginConfig.cfg, err |-> Nil, disabled |-> disabled]

\* A ConfigToClient that never takes the address over.
ConfigToClientKeepsDefault(cfg) == [cfg |-> DefaultConfig, err |-> Nil]

\* ConfigToClient: api.DefaultConfig() with the address replaced when given.
ConfigToClient(cfg) ==
    [cfg |-> IF cfg.Address # ""
             THEN [DefaultConfig EXCEPT !.Address = cfg.Address]
             ELSE DefaultConfig,
     err |-> Nil]

\* The early return of Init after getConfig.
InitStopsOnErrOnly(err, dis) == err # Nil

InitStops(err, dis) == err # Nil \/ dis

\* kvproto.NewProtoWrapperWithSerializer(plugin.client, &keyval.SerializerJSON{})
NewProtoWrapperWithSerializer(cl, serializer) ==
    <<[broker |-> cl, serializer |-> serializer]>>

\* Init after its call of getConfig (gc): what it leaves in the plugin and
\* returns; clientErr is the error NewClient returns (with a nil client when it
\* is an error).
InitAfterConfig(gc, clientErr) ==
    LET same == [disabled |-> gc.disabled, connected |-> connected,
                 client |-> client, protoWrapper |-> protoWrapper,
                 reconnectResync |-> reconnectResync, registered |-> registered,
                 ret |-> Nil, clientCalled |-> FALSE, panicked |-> Nil]
    IN  IF InitStops(gc.err, gc.disabled)
        THEN [same EXCEPT !.ret = gc.err]
        ELSE IF gc.cfg = NilPtr
        THEN [same EXCEPT !.ret = Panic, !.panicked = "Init"]
        ELSE LET cfg == gc.cfg[1]
                 cc == ConfigToClient(cfg)
             IN  IF cc.err # Nil
                 THEN [same EXCEPT !.ret = cc.err]
                 ELSE IF clientErr # Nil
                 THEN [same EXCEPT !.client = NilPtr, !.ret = clientErr,
                                   !.clientCalled = TRUE]
                 ELSE LET cl == <<[cfg |-> cc.cfg, closed |-> FALSE]>>
                          marked == TRUE   \* line 121, before Register
                      IN  [disabled |-> gc.disabled,
                           connected |-> marked,
                           client |-> cl,
                           protoWrapper |->
                               NewProtoWrapperWithSerializer(cl, "SerializerJSON"),
                           reconnectResync |-> cfg.ReconnectResync,
                           registered |->
                               IF deps.StatusCheck
                               THEN Append(registered,
                                           [name |-> PluginName,
                                            pluginConnected |-> marked])
                               ELSE registered,
                           ret |-> Nil,
                           clientCalled |-> TRUE,
                           panicked |-> Nil]

\* An Init that carries on as if NewClient had succeeded.
InitResultIgnoresClientErr(clientErr) ==
    [InitAfterConfig(getConfig, Nil) EXCEPT !.clientCalled = TRUE]

\* An Init that marks the plugin connected before it looks at the configuration.
InitResultConnectsFirst(clientErr) ==
    [InitAfterConfig(getConfig, clientErr) EXCEPT !.connected = TRUE]

\* An Init that registers its probe a second time.
InitResultRegistersTwice(clientErr) ==
    LET r == InitAfterConfig(getConfig, clientErr)
    IN  [r EXCEPT !.registered = r.registered \o r.registered]

\* The whole of Init: getConfig, then the rest.
InitResult(clientErr) == InitAfterConfig(getConfig, clientErr)

\* Plugin.Init
PluginInit(clientErr) ==
    /\ Alive
    /\ initRet = NotCalled
    /\ LET r == InitResult(clientErr)
       IN  /\ initNotifChan' = "open"
           /\ disabled' = r.disabled
           /\ connected' = r.connected
           /\ client' = r.client
           /\ protoWrapper' = r.protoWrapper
           /\ reconnectResync' = r.reconnectResync
           /\ registered' = r.registered
           /\ initRet' = r.ret
           /\ newClientErr' = IF r.clientCalled THEN clientErr ELSE NotCalled
           /\ panicked' = r.panicked
    /\ UNCHANGED <<envVars, ttlVars, consumerVars, notifSent, lastConnErr,
                   resyncCalls, probeHist, closeHist, nResyncOps, opHist,
                   concVars>>

\* ----------------------------------------------------------- status probe
\* A probe that asks for the resync on every success.
ResyncDueOnEverySuccess == reconnectResync

\* A probe that asks for the resync whether configured to or not.
ResyncDueIgnoresConfig == lastConnErr # Nil

\* The condition under which a successful probe starts the resync.
ResyncDue == reconnectResync /\ lastConnErr # Nil

\* A probe whose success branch forgets to set connected.
ProbeResultLeavesConnected(err) ==
    IF err = Nil
    THEN LET started == ResyncDue /\ deps.Resync
         IN  [lastConnErr |-> IF started THEN Nil ELSE lastConnErr,
              connected |-> connected,
              resyncs |-> IF started THEN 1 ELSE 0,
              state |-> "OK",
              err |-> Nil,
              warned |-> ResyncDue /\ ~deps.Resync,
              notifs |-> 0]
    ELSE [lastConnErr |-> err,
          connected |-> FALSE,
          resyncs |-> 0,
          state |-> "Error",
          err |-> err,
          warned |-> FALSE,
          notifs |-> 0]

\* A probe whose failure branch keeps the first error instead of the latest.
ProbeResultKeepsFirstErr(err) ==
    IF err = Nil
    THEN LET started == ResyncDue /\ deps.Resync
         IN  [lastConnErr |-> IF started THEN Nil ELSE lastConnErr,
              connected |-> TRUE,
              resyncs |-> IF started THEN 1 ELSE 0,
              state |-> "OK",
              err |-> Nil,
              warned |-> ResyncDue /\ ~deps.Resync,
              notifs |-> 0]
    ELSE [lastConnErr |-> IF lastConnErr = Nil THEN err ELSE lastConnErr,
          connected |-> FALSE,
          resyncs |-> 0,
          state |-> "Error",
          err |-> err,
          warned |-> FALSE,
          notifs |-> 0]

\* A probe that sends on the notification channel whenever it finds the
\* connection back.
ProbeResultNotifiesOnRecovery(err) ==
    IF err = Nil
    THEN LET started == ResyncDue /\ deps.Resync
         IN  [lastConnErr |-> IF started THEN Nil ELSE lastConnErr,
              connected |-> TRUE,
              resyncs |-> IF started THEN 1 ELSE 0,
              state |-> "OK",
              err |-> Nil,
              warned |-> ResyncDue /\ ~deps.Resync,
              notifs |-> IF ~connected THEN 1 ELSE 0]
    ELSE [lastConnErr |-> err,
          connected |-> FALSE,
          resyncs |-> 0,
          state |-> "Error",
          err |-> err,
          warned |-> FALSE,
          notifs |-> 0]

\* A probe that clears the stored error even when it could not start the resync.
ProbeResultClearsWithoutResync(err) ==
    IF err = Nil
    THEN LET started == ResyncDue /\ deps.Resync
         IN  [lastConnErr |-> IF ResyncDue THEN Nil ELSE lastConnErr,
              connected |-> TRUE,
              resyncs |-> IF started THEN 1 ELSE 0,
              state |-> "OK",
              err |-> Nil,
              warned |-> ResyncDue /\ ~deps.Resync,
              notifs |-> 0]
    ELSE [lastConnErr |-> err,
          connected |-> FALSE,
          resyncs |-> 0,
          state |-> "Error",
          err |-> err,
          warned |-> FALSE,
          notifs |-> 0]

\* The status probe closure, as one call: err is what client.GetValue returned.
\* Gives the fields it leaves, the DoResync calls it made and what it returns.
ProbeResult(err) ==
    IF err = Nil
    THEN LET started == ResyncDue /\ deps.Resync
         IN  [lastConnErr |-> IF started THEN Nil ELSE lastConnErr,
              connected |-> TRUE,
              resyncs |-> IF started THEN 1 ELSE 0,
              state |-> "OK",
              err |-> Nil,
              warned |-> ResyncDue /\ ~deps.Resync,
              notifs |-> 0]
    ELSE [lastConnErr |-> err,
          connected |-> FALSE,
          resyncs |-> 0,
          state |-> "Error",
          err |-> err,
          warned |-> FALSE,
          notifs |-> 0]

\* One probe invocation by the health aggregator, run to completion.
Probe(err) ==
    /\ Alive
    /\ registered # <<>>
    /\ nProbes < MaxProbes
    /\ \A t \in Threads : pc[t] = "idle"
    /\ LET r == ProbeResult(err)
       IN  /\ lastConnErr' = r.lastConnErr
           /\ connected' = r.connected
           /\ resyncCalls' = resyncCalls + r.resyncs
           /\ resyncSinceFail' = IF err # Nil THEN 0 ELSE resyncSinceFail + r.resyncs
           /\ lastProbe' = <<[err |-> err,
                              failsBefore |-> failStreak,
                              prevConnErr |-> lastConnErr,
                              resyncs |-> r.resyncs,
                              state |-> r.state,
                              reported |-> r.err,
                              warned |-> r.warned]>>
           /\ notifSent' = notifSent + r.notifs
    /\ nProbes' = nProbes + 1
    /\ failStreak' = IF err = Nil THEN 0 ELSE failStreak + 1
    /\ recoveries' = IF err = Nil /\ failStreak >= 1
                     THEN recoveries + 1 ELSE recoveries
    /\ UNCHANGED <<envVars, ttlVars, consumerVars, disabled, client,
                   protoWrapper, reconnectResync, initNotifChan, registered,
                   initHist, panicked, closeHist, nResyncOps, opHist,
                   concVars>>

\* ---------------------------------------------------------------- DoResync
\* Plugin.DoResync: forwards to the resync collaborator. With no collaborator
\* injected the call goes to a nil *resync.Plugin; whether that panics is up to
\* the collaborator, so both outcomes are allowed.
DoResync ==
    /\ Alive
    /\ initRet # NotCalled
    /\ nResyncOps < MaxResyncCalls
    /\ nResyncOps' = nResyncOps + 1
    /\ IF deps.Resync
       THEN /\ resyncCalls' = resyncCalls + 1
            /\ UNCHANGED panicked
       ELSE /\ UNCHANGED resyncCalls
            /\ \E crash \in BOOLEAN :
                   panicked' = IF crash THEN "DoResync" ELSE Nil
    /\ UNCHANGED <<envVars, ttlVars, consumerVars, notifSent, fieldVars,
                   registered, initHist, probeHist, closeHist, opHist,
                   concVars>>

\* ------------------------------------------------------------------- Close
\* safeclose.Close on the notification channel: closes an open channel and
\* tolerates a nil or already closed one.
safecloseClose(ch) ==
    IF ch = "open"
    THEN [chan |-> "closed", err |-> Nil, released |-> 1, panicked |-> Nil]
    ELSE [chan |-> ch, err |-> Nil, released |-> 0, panicked |-> Nil]

\* Closing the channel with the builtin close: panics on a nil or closed channel.
builtinClose(ch) ==
    IF ch = "open"
    THEN [chan |-> "closed", err |-> Nil, released |-> 1, panicked |-> Nil]
    ELSE [chan |-> ch, err |-> Panic, released |-> 0, panicked |-> "Close"]

CloseWithBuiltin ==
    /\ Alive
    /\ initRet # NotCalled
    /\ Len(closeRets) < MaxCloses
    /\ LET r == builtinClose(initNotifChan)
       IN  /\ initNotifChan' = r.chan
           /\ closeRets' = Append(closeRets, r.err)
           /\ chanReleases' = chanReleases + r.released
           /\ panicked' = r.panicked
    /\ UNCHANGED <<envVars, ttlVars, consumerVars, notifSent, disabled,
                   connected, client, protoWrapper, reconnectResync,
                   lastConnErr, registered, resyncCalls, initHist, probeHist,
                   nResyncOps, opHist, concVars>>

\* Plugin.Close
Close ==
    /\ Alive
    /\ initRet # NotCalled
    /\ Len(closeRets) < MaxCloses
    /\ LET r == safecloseClose(initNotifChan)
       IN  /\ initNotifChan' = r.chan
           /\ closeRets' = Append(closeRets, r.err)
           /\ chanReleases' = chanReleases + r.released
           /\ panicked' = r.panicked
    /\ UNCHANGED <<envVars, ttlVars, consumerVars, notifSent, disabled,
                   connected, client, protoWrapper, reconnectResync,
                   lastConnErr, registered, resyncCalls, initHist, probeHist,
                   nResyncOps, opHist, concVars>>

\* ------------------------------------------------------ brokers and watchers
\* ProtoWrapper.NewBroker / NewWatcher: a handle scoped to a prefix that keeps a
\* reference to the wrapper it was made from.
ProtoWrapperNewBroker(wrapper, keyPrefix) ==
    [kind |-> "broker", prefix |-> keyPrefix, wrapper |-> wrapper]

ProtoWrapperNewWatcher(wrapper, keyPrefix) ==
    [kind |-> "watcher", prefix |-> keyPrefix, wrapper |-> wrapper]

\* The operations of a handle.
HandleOps(h) == IF h.kind = "broker" THEN {"Put", "Get"} ELSE {"Watch"}

\* What a call through a handle returns: a handle made without a configured
\* backend fails fast, otherwise the transport decides.
HandleCall(h, op, transportOK) ==
    IF h.wrapper = NilPtr THEN "NotConfigured"
    ELSE IF transportOK THEN "ok"
    ELSE "Unavailable"

\* A NewBroker that wraps the client anew on every call.
NewBrokerFreshWrapper(keyPrefix) ==
    /\ Alive
    /\ initRet # NotCalled
    /\ Cardinality(handles) < MaxHandles
    /\ handles' = handles \cup
           {ProtoWrapperNewBroker(
                NewProtoWrapperWithSerializer(client, "SerializerJSON"), keyPrefix)}
    /\ UNCHANGED <<envVars, ttlVars, consumerVars, notifSent, fieldVars,
                   registered, resyncCalls, initHist, panicked, probeHist,
                   closeHist, nResyncOps, lastOp, concVars>>

\* Plugin.NewBroker
NewBroker(keyPrefix) ==
    /\ Alive
    /\ initRet # NotCalled
    /\ Cardinality(handles) < MaxHandles
    /\ handles' = handles \cup {ProtoWrapperNewBroker(protoWrapper, keyPrefix)}
    /\ UNCHANGED <<envVars, ttlVars, consumerVars, notifSent, fieldVars,
                   registered, resyncCalls, initHist, panicked, probeHist,
                   closeHist, nResyncOps, lastOp, concVars>>

\* A NewWatcher that hands out a usable watcher only while connected.
NewWatcherOnlyWhenConnected(keyPrefix) ==
    /\ Alive
    /\ initRet # NotCalled
    /\ Cardinality(handles) < MaxHandles
    /\ handles' = handles \cup
           {ProtoWrapperNewWatcher(IF connected THEN protoWrapper ELSE NilPtr,
                                   keyPrefix)}
    /\ UNCHANGED <<envVars, ttlVars, consumerVars, notifSent, fieldVars,
                   registered, resyncCalls, initHist, panicked, probeHist,
                   closeHist, nResyncOps, lastOp, concVars>>

\* Plugin.NewWatcher
NewWatcher(keyPrefix) ==
    /\ Alive
    /\ initRet # NotCalled
    /\ Cardinality(handles) < MaxHandles
    /\ handles' = handles \cup {ProtoWrapperNewWatcher(protoWrapper, keyPrefix)}
    /\ UNCHANGED <<envVars, ttlVars, consumerVars, notifSent, fieldVars,
                   registered, resyncCalls, initHist, panicked, probeHist,
                   closeHist, nResyncOps, lastOp, concVars>>

\* A Put, Get or Watch made through a handle obtained earlier.
UseHandle(h, op, transportOK) ==
    /\ Alive
    /\ h \in handles
    /\ op \in HandleOps(h)
    /\ lastOp' = <<[handle |-> h, op |-> op,
                    result |-> HandleCall(h, op, transportOK)]>>
    /\ UNCHANGED <<envVars, ttlVars, consumerVars, notifSent, fieldVars,
                   registered, resyncCalls, initHist, panicked, probeHist,
                   closeHist, nResyncOps, handles, concVars>>

\* ------------------------------------------------- post-init notification
\* Plugin.GetInitNotificationChan
GetInitNotificationChan == initNotifChan

\* A consumer receives from the channel GetInitNotificationChan returned: a
\* value the plugin sent, or the zero value of a closed channel; on an open
\* channel with nothing sent (or a nil one) the receive blocks.
ReceiveNotif ==
    /\ Alive
    /\ initRet # NotCalled
    /\ \/ /\ notifReceived < notifSent
          /\ notifReceived' = notifReceived + 1
          /\ lastReceive' = "value"
       \/ /\ notifReceived = notifSent
          /\ GetInitNotificationChan = "closed"
          /\ lastReceive' = "closed"
          /\ UNCHANGED notifReceived
    /\ UNCHANGED <<envVars, ttlVars, notifSent, fieldVars, registered,
                   resyncCalls, initHist, panicked, probeHist, closeHist,
                   nResyncOps, opHist, concVars>>

\* ------------------------------------------- status probe, statement by statement
\* line 126: _, _, _, err := plugin.client.GetValue(healthCheckProbeKey)
ProbeGetValue(t, err) ==
    /\ Alive
    /\ registered # <<>>
    /\ nProbes < MaxProbes
    /\ pc[t] = "idle"
    /\ nProbes' = nProbes + 1
    /\ perr' = [perr EXCEPT ![t] = err]
    /\ pc' = [pc EXCEPT ![t] = IF err = Nil THEN "check" ELSE "recordErr"]
    /\ UNCHANGED <<envVars, ttlVars, consumerVars, notifSent, fieldVars,
                   registered, resyncCalls, initHist, panicked, failStreak,
                   resyncSinceFail, lastProbe, recoveries, closeHist,
                   nResyncOps, opHist>>

\* A probe that sets connected before it deals with the resync.
ProbeCheckConnectsFirst(t) ==
    /\ Alive
    /\ pc[t] = "check"
    /\ connected' = TRUE
    /\ pc' = [pc EXCEPT ![t] = IF ResyncDue /\ deps.Resync
                               THEN "doResync" ELSE "setConnected"]
    /\ UNCHANGED <<envVars, ttlVars, consumerVars, notifSent, disabled, client,
                   protoWrapper, reconnectResync, lastConnErr, initNotifChan,
                   registered, resyncCalls, initHist, panicked, probeHist,
                   closeHist, nResyncOps, opHist, perr>>

\* lines 128-135: the reads of reconnectResync, lastConnErr and Resync
ProbeCheck(t) ==
    /\ Alive
    /\ pc[t] = "check"
    /\ pc' = [pc EXCEPT ![t] = IF ResyncDue /\ deps.Resync
                               THEN "doResync" ELSE "setConnected"]
    /\ UNCHANGED <<envVars, ttlVars, consumerVars, notifSent, fieldVars,
                   registered, resyncCalls, initHist, panicked, probeHist,
                   closeHist, nResyncOps, opHist, perr>>

\* line 131: plugin.Resync.DoResync()
ProbeDoResync(t) ==
    /\ Alive
    /\ pc[t] = "doResync"
    /\ resyncCalls' = resyncCalls + 1
    /\ resyncSinceFail' = resyncSinceFail + 1
    /\ pc' = [pc EXCEPT ![t] = "clearErr"]
    /\ UNCHANGED <<envVars, ttlVars, consumerVars, notifSent, fieldVars,
                   registered, initHist, panicked, nProbes, failStreak,
                   lastProbe, recoveries, closeHist, nResyncOps, opHist, perr>>

\* line 132: plugin.lastConnErr = nil
ProbeClearErr(t) ==
    /\ Alive
    /\ pc[t] = "clearErr"
    /\ lastConnErr' = Nil
    /\ pc' = [pc EXCEPT ![t] = "setConnected"]
    /\ UNCHANGED <<envVars, ttlVars, consumerVars, notifSent, disabled,
                   connected, client, protoWrapper, reconnectResync,
                   initNotifChan, registered, resyncCalls, initHist, panicked,
                   probeHist, closeHist, nResyncOps, opHist, perr>>

\* lines 137-138: plugin.connected = true; return statuscheck.OK, nil
ProbeSetConnected(t) ==
    /\ Alive
    /\ pc[t] = "setConnected"
    /\ connected' = TRUE
    /\ pc' = [pc EXCEPT ![t] = "idle"]
    /\ failStreak' = 0
    /\ recoveries' = IF failStreak >= 1 THEN recoveries + 1 ELSE recoveries
    /\ UNCHANGED <<envVars, ttlVars, consumerVars, notifSent, disabled, client,
                   protoWrapper, reconnectResync, lastConnErr, initNotifChan,
                   registered, resyncCalls, initHist, panicked, nProbes,
                   resyncSinceFail, lastProbe, closeHist, nResyncOps, opHist,
                   perr>>

\* line 140: plugin.lastConnErr = err
ProbeRecordErr(t) ==
    /\ Alive
    /\ pc[t] = "recordErr"
    /\ lastConnErr' = perr[t]
    /\ resyncSinceFail' = 0
    /\ pc' = [pc EXCEPT ![t] = "setDisconnected"]
    /\ UNCHANGED <<envVars, ttlVars, consumerVars, notifSent, disabled,
                   connected, client, protoWrapper, reconnectResync,
                   initNotifChan, registered, resyncCalls, initHist, panicked,
                   nProbes, failStreak, lastProbe, recoveries, closeHist,
                   nResyncOps, opHist, perr>>

\* lines 141-142: plugin.connected = false; return statuscheck.Error, err
ProbeSetDisconnected(t) ==
    /\ Alive
    /\ pc[t] = "setDisconnected"
    /\ connected' = FALSE
    /\ pc' = [pc EXCEPT ![t] = "idle"]
    /\ failStreak' = failStreak + 1
    /\ UNCHANGED <<envVars, ttlVars, consumerVars, notifSent, disabled, client,
                   protoWrapper, reconnectResync, lastConnErr, initNotifChan,
                   registered, resyncCalls, initHist, panicked, nProbes,
                   resyncSinceFail, lastProbe, recoveries, closeHist,
                   nResyncOps, opHist, perr>>

\* ------------------------------------------------------------ put options
\* time.Duration values handed to WithTTL.
Durations == {-5, 0, 1, 30}

\* type WithTTLOpt
WithTTLOpt == [TTL : Durations]

\* A WithTTL that turns a negative duration into "no TTL".
WithTTLClampsNegative(TTL) == [TTL |-> IF TTL < 0 THEN 0 ELSE TTL]

\* WithTTL: &WithTTLOpt{TTL}
WithTTL(TTL) == [TTL |-> TTL]

\* A call of WithTTL: the option is a new allocation, at the next address.
CallWithTTL(d) ==
    /\ Len(ttlArgs) < MaxOpts
    /\ ttlOpts' = Append(ttlOpts, WithTTL(d))
    /\ ttlArgs' = Append(ttlArgs, d)
    /\ UNCHANGED <<envVars, consumerVars, notifSent, fieldVars, registered,
                   resyncCalls, initHist, panicked, probeHist, closeHist,
                   nResyncOps, opHist, concVars>>

\* ---------------------------------------------------------- specifications
ProbeOutcomes == {Nil} \cup ProbeErrors
ClientOutcomes == {Nil} \cup ClientErrors

Next ==
    \/ \E e \in ClientOutcomes : PluginInit(e)
    \/ \E e \in ProbeOutcomes : Probe(e)
    \/ DoResync
    \/ Close
    \/ \E p \in KeyPrefixes : NewBroker(p)
    \/ \E p \in KeyPrefixes : NewWatcher(p)
    \/ \E h \in handles : \E op \in HandleOps(h) : \E ok \in BOOLEAN :
           UseHandle(h, op, ok)
    \/ ReceiveNotif

Spec == Init /\ [][Next]_vars

NextConc ==
    \/ \E e \in ClientOutcomes : PluginInit(e)
    \/ \E t \in Threads : \E e \in ProbeOutcomes : ProbeGetValue(t, e)
    \/ \E t \in Threads : ProbeCheck(t)
    \/ \E t \in Threads : ProbeDoResync(t)
    \/ \E t \in Threads : ProbeClearErr(t)
    \/ \E t \in Threads : ProbeSetConnected(t)
    \/ \E t \in Threads : ProbeRecordErr(t)
    \/ \E t \in Threads : ProbeSetDisconnected(t)
    \/ Close

SpecConc == Init /\ [][NextConc]_vars

\* The probe statement by statement, one invocation in flight at a time.
ProbeGetValueAlone(t, err) ==
    /\ \A u \in Threads : pc[u] = "idle"
    /\ ProbeGetValue(t, err)

NextSteps ==
    \/ \E e \in ClientOutcomes : PluginInit(e)
    \/ \E t \in Threads : \E e \in ProbeOutcomes : ProbeGetValueAlone(t, e)
    \/ \E t \in Threads : ProbeCheck(t)
    \/ \E t \in Threads : ProbeDoResync(t)
    \/ \E t \in Threads : ProbeClearErr(t)
    \/ \E t \in Threads : ProbeSetConnected(t)
    \/ \E t \in Threads : ProbeRecordErr(t)
    \/ \E t \in Threads : ProbeSetDisconnected(t)
    \/ Close

SpecSteps == Init /\ [][NextSteps]_vars

\* The option constructor, called before and after Init.
NextTTL ==
    \/ \E d \in Durations : CallWithTTL(d)
    \/ \E e \in ClientOutcomes : PluginInit(e)

SpecTTL == Init /\ [][NextTTL]_vars

\* ------------------------------------------------------------------ claims
Initialised == initRet = Nil /\ ~disabled
ConfigAbsent == ~pluginConfig.found /\ pluginConfig.err = Nil
Probed == lastProbe # NilPtr
LastProbe == lastProbe[1]

\* C1: with resync-after-reconnect enabled and the resync collaborator present,
\* any number n >= 1 of consecutive failing probes leaves the plugin not
\* connected with lastConnErr set; the first successful probe after them calls
\* DoResync exactly once and leaves the plugin connected; a successful probe
\* with no failure before it calls DoResync not at all.
C1_ResyncOncePerReconnect ==
    (Initialised /\ reconnectResync /\ deps.Resync /\ Probed) =>
        /\ LastProbe.err # Nil =>
               /\ ~connected
               /\ lastConnErr # Nil
               /\ failStreak = LastProbe.failsBefore + 1
        /\ (LastProbe.err = Nil /\ LastProbe.failsBefore >= 1) =>
               /\ LastProbe.resyncs = 1
               /\ resyncSinceFail = 1
               /\ connected
        /\ (LastProbe.err = Nil /\ LastProbe.failsBefore = 0) =>
               /\ LastProbe.resyncs = 0
               /\ resyncSinceFail <= 1
               /\ connected

\* The scenario of the spec: three failures, then the success that resyncs.
C1_Witness ==
    /\ Initialised /\ reconnectResync /\ deps.Resync /\ Probed
    /\ LastProbe.err = Nil
    /\ LastProbe.failsBefore = 3
    /\ LastProbe.resyncs = 1
    /\ connected

\* C2: when no configuration is found, Init returns no error and leaves the
\* plugin disabled, not connected, without a client and with no probe
\* registered, and it stays so.
C2_NoConfigDisables ==
    (ConfigAbsent /\ initRet # NotCalled) =>
        /\ initRet = Nil
        /\ disabled
        /\ ~connected
        /\ client = NilPtr
        /\ newClientErr = NotCalled
        /\ registered = <<>>

C2_Witness == ConfigAbsent /\ initRet = Nil /\ disabled /\ deps.StatusCheck

\* C3: when the configuration is present and NewClient fails, Init returns
\* that error and the plugin is neither connected nor disabled, has no
\* serialization adapter and no probe registered.
C3_ClientFailureIsFatal ==
    (newClientErr \in ClientErrors) =>
        /\ initRet = newClientErr
        /\ ~connected
        /\ ~disabled
        /\ protoWrapper = NilPtr
        /\ registered = <<>>

C3_Witness ==
    /\ pluginConfig.found
    /\ newClientErr \in ClientErrors
    /\ initRet = newClientErr
    /\ deps.StatusCheck

C5_CloseIdempotent ==
    /\ \A i \in 1..Len(closeRets) : closeRets[i] = Nil
    /\ panicked # "Close"
    /\ chanReleases <= 1
    /\ (closeRets # <<>> => initNotifChan = "closed" /\ chanReleases = 1)

\* Closed twice while degraded.
C5_Witness ==
    /\ Len(closeRets) = 2
    /\ Initialised /\ ~connected /\ lastConnErr # Nil
    /\ chanReleases = 1

\* C6 as stated: after every successful probe the plugin is connected and
\* lastConnErr is nil.
C6_SuccessClearsErr ==
    (Probed /\ LastProbe.err = Nil) => (connected /\ lastConnErr = Nil)

\* C6 amended: after every successful probe the plugin is connected; the
\* stored error is cleared when resync-after-reconnect is enabled and the
\* resync collaborator is present, and otherwise keeps the value it had before
\* the probe.
C6_SuccessConnects ==
    (Probed /\ LastProbe.err = Nil) =>
        /\ connected
        /\ LastProbe.state = "OK"
        /\ lastConnErr = IF reconnectResync /\ deps.Resync
                         THEN Nil ELSE LastProbe.prevConnErr

\* A success after a failure, with the resync not configured: connected, and
\* the error still stored.
C6_Witness ==
    /\ Probed /\ LastProbe.err = Nil
    /\ LastProbe.failsBefore >= 1
    /\ ~reconnectResync
    /\ connected
    /\ lastConnErr # Nil

\* C7: a failing probe stores its error in lastConnErr, sets the plugin not
\* connected and reports Error with that error; so an initialised plugin that
\* is not connected has lastConnErr set.
C7_FailureRecorded ==
    Initialised =>
        /\ ~connected => lastConnErr # Nil
        /\ (Probed /\ LastProbe.err # Nil) =>
               /\ lastConnErr = LastProbe.err
               /\ ~connected
               /\ LastProbe.state = "Error"
               /\ LastProbe.reported = LastProbe.err

\* A failure that replaces the error of an earlier failure.
C7_Witness ==
    /\ Initialised /\ Probed
    /\ LastProbe.err = "errRefused"
    /\ LastProbe.prevConnErr = "errTimeout"
    /\ lastConnErr = "errRefused"
    /\ ~connected

\* C8: with probe invocations interleaved, the recovery from one failure
\* triggers DoResync at most once.
C8_OneResyncPerReconnect == resyncSinceFail <= 1

\* The probe invocations that have a write of lastConnErr or connected pending.
Writers ==
    {t \in Threads :
        pc[t] \in {"clearErr", "setConnected", "recordErr", "setDisconnected"}}

\* C9: at most one invocation is inside a state transition at a time, and
\* Connected() never shows a half-applied transition (the error of a failure
\* stored while the plugin still reads as connected).
C9_SingleWriter ==
    /\ Cardinality(Writers) <= 1
    /\ \A t \in Threads : pc[t] = "setDisconnected" => ~connected

\* C10: once Init has run no step changes disabled, and a disabled plugin is
\* never connected.
C10_DisabledIsFinal ==
    [][/\ initRet # NotCalled => disabled' = disabled
       /\ disabled' => ~connected']_vars

\* A disabled plugin that was closed, asked for handles and told to resync.
C10_Witness ==
    /\ disabled
    /\ closeRets # <<>>
    /\ handles # {}
    /\ nResyncOps >= 1

\* C11: over Init, any probes and Close, at most one notification is sent on
\* the channel of GetInitNotificationChan and a consumer receives at most one;
\* several recoveries do not produce several notifications.
C11_NotificationSingleFire ==
    /\ notifSent <= 1
    /\ notifReceived <= 1
    /\ lastReceive = "value" => notifReceived = 1

\* Two recoveries, a Close, and a consumer that has only seen the channel closed.
C11_Witness ==
    /\ recoveries >= 2
    /\ closeRets # <<>>
    /\ lastReceive = "closed"
    /\ notifReceived = 0

\* C12: a probe step, failing or not, leaves client, protoWrapper, disabled
\* and reconnectResync as they were, so every handle keeps the wrapper of the
\* plugin; NewBroker and NewWatcher give a handle on the plugin's wrapper
\* whether connected or not and leave connected alone.
C12_HandlesOutliveReconnect ==
    [][/\ nProbes' # nProbes =>
              /\ client' = client
              /\ protoWrapper' = protoWrapper
              /\ disabled' = disabled
              /\ reconnectResync' = reconnectResync
              /\ handles' = handles
       /\ handles' # handles =>
              /\ connected' = connected
              /\ \A h \in handles' \ handles : h.wrapper = protoWrapper
       /\ \A h \in handles' : h.wrapper = protoWrapper']_vars

\* A watcher obtained while degraded, used with success after the reconnect.
C12_Witness ==
    /\ Initialised /\ connected /\ recoveries >= 1
    /\ lastOp # NilPtr
    /\ lastOp[1].op = "Watch"
    /\ lastOp[1].result = "ok"
    /\ lastOp[1].handle.wrapper = protoWrapper

\* C13: after Close on an initialised plugin the notification channel is
\* closed and the backend client is released.
C13_CloseReleasesAll ==
    (Initialised /\ closeRets # <<>>) =>
        /\ initNotifChan = "closed"
        /\ client[1].closed

\* C14: when Init succeeds the plugin is connected at the time the probe is
\* registered; the probe is registered exactly once, under the plugin's name,
\* if a health aggregator is injected; without one Init succeeds all the same
\* and the plugin is connected in every later state.
C14_ConnectedThenRegistered ==
    /\ (pluginConfig.found /\ newClientErr = Nil) => Initialised
    /\ Initialised =>
           /\ registered = IF deps.StatusCheck
                           THEN <<[name |-> PluginName, pluginConnected |-> TRUE]>>
                           ELSE <<>>
           /\ nProbes = 0 => connected
           /\ ~deps.StatusCheck => (connected /\ nProbes = 0 /\ lastConnErr = Nil)

\* No aggregator: initialised, then closed and asked for handles, still connected.
C14_Witness ==
    /\ Initialised /\ ~deps.StatusCheck
    /\ connected
    /\ closeRets # <<>>
    /\ handles # {}

\* C15: in a successful probe that follows a failure, DoResync is invoked
\* while the plugin is still not connected and lastConnErr is still set, and
\* both are still so when DoResync has returned; the error is cleared and
\* connected set only after that.
C15_ResyncBeforeConnected ==
    \A t \in Threads :
        /\ pc[t] = "doResync" => (~connected /\ lastConnErr # Nil)
        /\ pc[t] = "clearErr" =>
               (~connected /\ lastConnErr # Nil /\ resyncSinceFail = 1)

\* DoResync has just been called by the probe; nothing is cleared yet.
C15_Witness ==
    \E t \in Threads :
        /\ pc[t] = "clearErr"
        /\ resyncCalls = 1
        /\ ~connected
        /\ lastConnErr # Nil

\* The DoResync calls made by probes (the others are the exported DoResync's).
ProbeResyncs == resyncCalls - (IF deps.Resync THEN nResyncOps ELSE 0)

\* C16: with resync-after-reconnect disabled no probe ever calls DoResync;
\* with it enabled a probe calls DoResync only when it succeeds after a
\* failure that no probe-triggered resync has followed yet, so never right
\* after Init and never more often than there were recoveries.
C16_ResyncOnlyOnRecovery ==
    Initialised =>
        /\ ~reconnectResync => ProbeResyncs = 0
        /\ ProbeResyncs <= recoveries
        /\ (Probed /\ LastProbe.resyncs >= 1) =>
               /\ reconnectResync
               /\ LastProbe.err = Nil
               /\ LastProbe.failsBefore >= 1
               /\ LastProbe.prevConnErr # Nil

\* Resync not configured: two recoveries, no DoResync call.
C16_Witness ==
    /\ Initialised /\ ~reconnectResync /\ deps.Resync
    /\ recoveries >= 2
    /\ resyncCalls = 0

\* C17: with resync-after-reconnect enabled and no resync collaborator, a
\* successful probe triggers no resync, sets connected, reports OK and leaves
\* lastConnErr as it was; after a failure it stays set, so every later
\* successful probe finds the resync due and cannot start it.
C17_MissingResyncKeepsErr ==
    (Initialised /\ reconnectResync /\ ~deps.Resync /\ Probed /\ LastProbe.err = Nil) =>
        /\ LastProbe.resyncs = 0
        /\ resyncCalls = 0
        /\ connected
        /\ LastProbe.state = "OK"
        /\ lastConnErr = LastProbe.prevConnErr
        /\ LastProbe.warned = (LastProbe.prevConnErr # Nil)
        /\ LastProbe.failsBefore >= 1 => lastConnErr # Nil
        /\ recoveries >= 1 => (LastProbe.warned /\ lastConnErr # Nil)

\* A second success in a row that still could not start the resync.
C17_Witness ==
    /\ Initialised /\ reconnectResync /\ ~deps.Resync /\ Probed
    /\ LastProbe.err = Nil
    /\ LastProbe.failsBefore = 0
    /\ LastProbe.warned
    /\ connected
    /\ lastConnErr # Nil

\* C18: when loading the configuration returns an error, Init returns that
\* error and the plugin is neither disabled nor connected, has no client and
\* no probe registered.
C18_ConfigErrorIsReturned ==
    (pluginConfig.err # Nil /\ initRet # NotCalled) =>
        /\ initRet = pluginConfig.err
        /\ ~disabled
        /\ ~connected
        /\ client = NilPtr
        /\ newClientErr = NotCalled
        /\ registered = <<>>

C18_Witness ==
    /\ pluginConfig.err \in ConfigErrors
    /\ initRet = pluginConfig.err
    /\ deps.StatusCheck

\* C19: ConfigToClient returns no error, so with a configuration found Init
\* always goes on to NewClient; the client configuration it builds is the
\* backend default with only the address replaced: the default address for
\* an empty Address, the given one otherwise, whatever ReconnectResync is.
C19_ConfigToClientAddress ==
    (pluginConfig.found /\ initRet # NotCalled) =>
        LET c == pluginConfig.cfg[1]
        IN  /\ newClientErr # NotCalled
            /\ initRet \in {Nil} \cup ClientErrors
            /\ Initialised =>
                   /\ client[1].cfg.Address =
                          IF c.Address = "" THEN DefaultAddress ELSE c.Address
                   /\ client[1].cfg.Scheme = DefaultConfig.Scheme
                   /\ DOMAIN client[1].cfg = DOMAIN DefaultConfig
                   /\ \A c2 \in Config :
                          c2.Address = c.Address =>
                              ConfigToClient(c2).cfg = client[1].cfg

\* An address given together with resync-after-reconnect: only the address
\* shows in the client configuration.
C19_Witness ==
    /\ Initialised
    /\ pluginConfig.cfg[1].Address = "10.0.0.7:8500"
    /\ pluginConfig.cfg[1].ReconnectResync
    /\ client[1].cfg = [Address |-> "10.0.0.7:8500", Scheme |-> "http"]

\* C20: every call WithTTL(d), d negative, zero or positive, allocates one new
\* option whose TTL is d as given, leaves the options made before as they
\* were and changes nothing of the plugin.
C20_WithTTLPackagesDuration ==
    [][ttlArgs' # ttlArgs =>
          LET n == Len(ttlOpts)
          IN  /\ Len(ttlOpts') = n + 1
              /\ Len(ttlArgs') = n + 1
              /\ SubSeq(ttlOpts', 1, n) = ttlOpts
              /\ ttlOpts'[n + 1] \in WithTTLOpt
              /\ ttlOpts'[n + 1].TTL = ttlArgs'[n + 1]
              /\ UNCHANGED <<fieldVars, registered, resyncCalls, initHist,
                             panicked>>]_vars

\* Options made for a negative, a zero and a positive duration.
C20_Witness ==
    /\ ttlArgs = <<-5, 0, 30>>
    /\ ttlOpts = <<[TTL |-> -5], [TTL |-> 0], [TTL |-> 30]>>
    /\ Initialised

====
